---- MODULE Spec2Model ----
(***************************************************************************)
(* Model of osprofiler/drivers/jaeger.py: the Jaeger driver of OSProfiler  *)
(* built on the OpenTelemetry tracing API.                                 *)
(*                                                                         *)
(* Python values are represented as follows.                               *)
(*   - a string that the code inspects character by character (the event   *)
(*     name) is a sequence of one-character strings;                       *)
(*   - a dict is a function whose DOMAIN is its set of keys; the empty     *)
(*     dict is the function with the empty domain, << >>;                  *)
(*   - None in an identifier slot is the number None (0); None in an       *)
(*     object slot is the record NoneObj;                                  *)
(*   - an exception leaving a method is recorded in the variable err, the  *)
(*     value a method returns in the variable ret.                         *)
(***************************************************************************)
EXTENDS Integers, Sequences, FiniteSets, TLC

\* ------------------------------------------------------------------------
\* Bounds of the model
\* ------------------------------------------------------------------------

\* Spans one driver instance opens in a run.
MaxSpans == 2

\* Start notifications the caller has issued and not yet matched by a stop.
MaxDepth == 2

\* ------------------------------------------------------------------------
\* Python values
\* ------------------------------------------------------------------------

\* `None` where the code expects an identifier (payload["parent_id"]).
None == 0

\* `None` where the code expects an object (parent_span = None).
NoneObj == [kind |-> "None"]

\* No exception left the method.
NoError == ""

\* str.endswith(suffix)
endswith(s, suffix) ==
    /\ Len(s) >= Len(suffix)
    /\ SubSeq(s, Len(s) - Len(suffix) + 1, Len(s)) = suffix

\* str.rstrip(chars): drops every trailing character that is a member of the
\* character set chars (the argument is a set of characters, not a suffix).
RECURSIVE rstrip(_, _)
rstrip(s, chars) ==
    IF s # << >> /\ s[Len(s)] \in chars
    THEN rstrip(SubSeq(s, 1, Len(s) - 1), chars)
    ELSE s

\* The characters of a string, as str.rstrip reads its argument.
CharsOf(s) == {s[i] : i \in 1..Len(s)}

\* The literal "start" of line 91 and the literal "-start" of line 127.
StartLiteral == <<"s", "t", "a", "r", "t">>
DashStartLiteral == <<"-", "s", "t", "a", "r", "t">>
DashStopLiteral == <<"-", "s", "t", "o", "p">>

\* dict.get(key) is truthy: the key is present and its value is a non-empty
\* mapping.
GetTruthy(d, key) == key \in DOMAIN d /\ DOMAIN d[key] # {}

\* ------------------------------------------------------------------------
\* create_span_tags
\* ------------------------------------------------------------------------

\* jsonutils.dumps(value): the serialised text of value, a value of its own
\* kind and never the mapping itself.
jsonutils_dumps(value) == [json |-> value]

\* The dict literal {} of line 195.
EmptyDict == << >>

\* Mutant: args and kwargs are always set, to a placeholder when the payload
\* has none (info["function"].get(...)).
FunctionTags_placeholder(fn) ==
    ("args" :> (IF "args" \in DOMAIN fn THEN fn["args"] ELSE "None"))
    @@ ("kwargs" :> (IF "kwargs" \in DOMAIN fn THEN fn["kwargs"] ELSE "None"))
    @@ ("name" :> fn["name"])
\* The function branch, lines 210-214: args and kwargs are copied when
\* present, name is read last.
FunctionTags(fn) ==
    (IF "args" \in DOMAIN fn THEN "args" :> fn["args"] ELSE EmptyDict)
    @@ (IF "kwargs" \in DOMAIN fn THEN "kwargs" :> fn["kwargs"] ELSE EmptyDict)
    @@ ("name" :> fn["name"])

\* Mutant: the request test of line 202 placed before the db test of line
\* 198.
BranchOf_request_first(info) ==
    IF GetTruthy(info, "request") THEN "request"
    ELSE IF GetTruthy(info, "db") THEN "db"
    ELSE IF GetTruthy(info, "function") THEN "function"
    ELSE "none"

\* Lines 198-208: the branch the if/elif chain takes, the first of db,
\* request and function whose info.get(...) is truthy.
BranchOf(info) ==
    IF GetTruthy(info, "db") THEN "db"
    ELSE IF GetTruthy(info, "request") THEN "request"
    ELSE IF GetTruthy(info, "function") THEN "function"
    ELSE "none"

\* The keys each branch reads with info[...][key]; a missing one raises
\* KeyError.
RequiredKeys(branch) ==
    CASE branch = "db" -> {"statement", "params"}
      [] branch = "request" -> {"path", "query", "method", "scheme"}
      [] branch = "function" -> {"name"}
      [] OTHER -> {}

\* create_span_tags(payload): [exc, tags]. exc is the exception that leaves
\* the method (NoError when it returns) and tags the returned dict.
create_span_tags(payload) ==
    LET info == payload.info
        branch == BranchOf(info)
    IN  IF branch # "none" /\ ~(RequiredKeys(branch) \subseteq DOMAIN info[branch])
        THEN [exc |-> "KeyError", tags |-> EmptyDict]
        ELSE [exc |-> NoError,
              tags |->
                CASE branch = "db" ->
                        ("db.statement" :> info["db"]["statement"])
                        @@ ("db.params" :> jsonutils_dumps(info["db"]["params"]))
                  [] branch = "request" ->
                        ("http.path" :> info["request"]["path"])
                        @@ ("http.query" :> info["request"]["query"])
                        @@ ("http.method" :> info["request"]["method"])
                        @@ ("http.scheme" :> info["request"]["scheme"])
                  [] branch = "function" -> FunctionTags(info["function"])
                  [] OTHER -> EmptyDict]

\* ------------------------------------------------------------------------
\* Notifications
\* ------------------------------------------------------------------------

\* Mutant: a parser that accepts a timestamp without its fractional part.
strptime_lenient(timestamp) == Len(timestamp) >= 6

\* A timestamp is the sequence of the fields that the format
\* "%Y-%m-%dT%H:%M:%S.%f" reads: <<year, month, day, hour, minute, second,
\* microsecond>>. datetime.strptime raises ValueError unless all seven are
\* present and in range.
strptime_ok(timestamp) ==
    /\ Len(timestamp) = 7
    /\ timestamp[1] \in 1..9999
    /\ timestamp[2] \in 1..12
    /\ timestamp[3] \in 1..31
    /\ timestamp[4] \in 0..23
    /\ timestamp[5] \in 0..59
    /\ timestamp[6] \in 0..61
    /\ timestamp[7] \in 0..999999

GoodTimestamp == <<2018, 1, 1, 10, 30, 0, 250000>>  \* "2018-01-01T10:30:00.250000"
BadTimestamp == <<2018, 1, 1, 10, 30, 0>>           \* "2018-01-01T10:30:00"

Timestamps == { GoodTimestamp, BadTimestamp }

\* Logical operation names; the second ends in a character of "-start".
Prefixes == { <<"d", "b">>, <<"r", "e", "q", "u", "e", "s", "t">> }

StartNames == { prefix \o DashStartLiteral : prefix \in Prefixes }
StopNames == { prefix \o DashStopLiteral : prefix \in Prefixes }

\* info mappings the instrumentation sends.
DbInfo == [db |-> [statement |-> "SELECT 1", params |-> [a |-> "1"]]]
FunctionInfoNoName == [function |-> [args |-> "(1, 2)"]]

\* info mappings of the notifications in the life-cycle specification.
Infos == { DbInfo, FunctionInfoNoName }

\* ------------------------------------------------------------------------
\* OpenTelemetry objects, as the driver uses them
\* ------------------------------------------------------------------------

\* trace.SpanContext(trace_id, span_id, is_remote, trace_flags)
SpanContext(trace_id, span_id, is_remote, sampled) ==
    [trace_id |-> trace_id, span_id |-> span_id,
     is_remote |-> is_remote, sampled |-> sampled]

\* The context of trace.INVALID_SPAN, which get_current_span yields for a
\* context that holds no span.
INVALID_SPAN_CONTEXT == SpanContext(0, 0, FALSE, FALSE)

is_valid(span_context) == span_context.trace_id # 0 /\ span_context.span_id # 0

\* trace.NonRecordingSpan(context)
NonRecordingSpan(span_context) ==
    [kind |-> "NonRecordingSpan", context |-> span_context]

\* Mutant: trace_id and span_id of the parent context exchanged.
parent_span_exchanged(payload) ==
    IF payload.parent_id # None
    THEN NonRecordingSpan(SpanContext(payload.parent_id, payload.base_id, TRUE, TRUE))
    ELSE NoneObj
\* Lines 105-119: the parent span of a start notification.
parent_span(payload) ==
    IF payload.parent_id # None
    THEN NonRecordingSpan(SpanContext(payload.base_id, payload.parent_id, TRUE, TRUE))
    ELSE NoneObj

\* Mutant: without a parent span the tracer falls back on the span that is
\* current in the ambient context (context=None instead of a context whose
\* span is None). ambient is the context of that span, if there is one.
parent_context_ambient(span_in_ctx, ambient) ==
    IF span_in_ctx = NoneObj THEN ambient ELSE span_in_ctx.context

\* Line 122, trace.set_span_in_context(parent_span), followed by the
\* tracer's get_current_span(ctx).get_span_context(): the span context the
\* tracer takes as the parent of the span it starts. ctx is derived from the
\* ambient context with its span replaced by parent_span, so that the span
\* which is current there (ambient) is not read.
parent_context(span_in_ctx, ambient) ==
    IF span_in_ctx = NoneObj THEN INVALID_SPAN_CONTEXT ELSE span_in_ctx.context

\* The identifier generator of the tracer: identifiers never handed out
\* before. created is the sequence of spans the tracer has started.
generate_span_id(created) == Len(created) + 1
generate_trace_id(created) == 10 * (Len(created) + 1)

\* Identifiers of a span of another process, which no local span carries.
RemoteSpanId == MaxSpans + 1
RemoteTraceId == 10 * (MaxSpans + 1)

\* Line 127: the name the span is started with.
span_name(payload) == rstrip(payload.name, CharsOf(DashStartLiteral))

\* Lines 126-132, tracer.start_span(name, context, attributes): the new
\* span. A valid parent context gives the span its trace id; without one the
\* span is the root of a new trace.
start_span(created, name, span_in_ctx, ambient, attributes) ==
    LET parent == parent_context(span_in_ctx, ambient)
        trace_id == IF is_valid(parent) THEN parent.trace_id
                    ELSE generate_trace_id(created)
    IN  [name |-> name,
         context |-> SpanContext(trace_id, generate_span_id(created), FALSE, TRUE),
         parent |-> IF is_valid(parent) THEN parent ELSE NoneObj,
         attributes |-> attributes,
         end_calls |-> 0]

\* ------------------------------------------------------------------------
\* State
\* ------------------------------------------------------------------------

VARIABLES
    spans,       \* self.spans: the deque of activations, the newest last
    created,     \* the spans the tracer has started, in the order of creation
    current,     \* the span that is current in the ambient tracing context:
                 \* its index in created, or 0 for the context the process
                 \* started with
    op,          \* the method called last
    ret,         \* what it returned (<< >> for None and for the empty list)
    err,         \* the exception that left it, or NoError
    pending,     \* caller: start notifications issued and not yet matched
    wellNested,  \* caller: no stop was issued without a start to match
    started,     \* start notifications handled without an exception
    stopped,     \* stop notifications handled without an exception
    tags_call    \* a call of create_span_tags on its own: its payload and,
                 \* once it has run, its outcome

vars ==
    <<spans, created, current, op, ret, err, pending, wellNested, started, stopped,
      tags_call>>

driverVars == <<spans, created, current>>
callerVars == <<pending, wellNested, started, stopped>>

\* No call of create_span_tags on its own is under way.
NoCall == [done |-> FALSE, payload |-> [info |-> EmptyDict], result |-> NoneObj]

\* Mutant: the activation is appended twice.
deque_append_twice(deque, x) == Append(Append(deque, x), x)

\* collections.deque: append, the element pop() returns, and what it leaves.
deque_append(deque, x) == Append(deque, x)
\* Mutant: the stop path takes the oldest activation (popleft's element).
deque_first(deque) == deque[1]
deque_last(deque) == deque[Len(deque)]
\* Mutant: the stop path reads the newest activation and leaves it in place.
deque_peek(deque) == deque
deque_pop(deque) == SubSeq(deque, 1, Len(deque) - 1)

\* Mutant: the activation keeps no token of the context it replaced, and
\* leaving it restores the context the process started with.
use_span_without_token(span_index, context_before) ==
    [span |-> span_index, token |-> 0]
\* Lines 143-144, trace.use_span(span, end_on_exit=True).__enter__(): the
\* activation makes the span current and keeps the token that restores the
\* context it replaced.
use_span(span_index, context_before) ==
    [span |-> span_index, token |-> context_before]

\* Mutant: leaving the activation does not end its span (end_on_exit=False).
span_left_open(span) == span

\* span.end(): the span is finished.
span_end(span) == [span EXCEPT !.end_calls = @ + 1]

\* Mutant: the two return statements of lines 155 and 157 exchanged.
start_result_exchanged(span, parent) ==
    IF parent = NoneObj
    THEN <<span.context.span_id>>
    ELSE <<span.context.trace_id, span.context.span_id>>

\* Lines 150-157: the list notify returns for a start.
start_result(span, parent) ==
    IF parent = NoneObj
    THEN <<span.context.trace_id, span.context.span_id>>
    ELSE <<span.context.span_id>>

\* Spans that were started and not ended, and spans that were ended.
OpenSpans == {i \in 1..Len(created) : created[i].end_calls = 0}
ClosedSpans == {i \in 1..Len(created) : created[i].end_calls > 0}

\* The spans of the activations on the stack.
StackSpans == {spans[i].span : i \in 1..Len(spans)}

\* ------------------------------------------------------------------------
\* The notifications a caller can send in the current state
\* ------------------------------------------------------------------------

\* base_id and parent_id are identifiers the caller knows: those earlier
\* starts returned, and those of a span of another process. A notification
\* names no parent, or a span together with the trace of that span.
BaseIds == {RemoteTraceId} \cup {created[i].context.trace_id : i \in 1..Len(created)}

Identifiers ==
    {<<base_id, None>> : base_id \in BaseIds}
    \cup {<<RemoteTraceId, RemoteSpanId>>}
    \cup {<<created[i].context.trace_id, created[i].context.span_id>> :
            i \in 1..Len(created)}

StartPayloads ==
    {[name |-> name, timestamp |-> timestamp, base_id |-> ids[1],
      parent_id |-> ids[2], info |-> info] :
        name \in StartNames, timestamp \in Timestamps, ids \in Identifiers,
        info \in Infos}

\* What a stop carries besides its name, <<base_id, parent_id, info>>: a
\* call without parent in the trace of another process, and a call with a
\* parent in the first local trace; the two differ in every field.
StopDetails ==
    {<<RemoteTraceId, None, DbInfo>>,
     <<generate_trace_id(<< >>), RemoteSpanId, FunctionInfoNoName>>}

StopPayloads ==
    {[name |-> name, timestamp |-> GoodTimestamp, base_id |-> details[1],
      parent_id |-> details[2], info |-> details[3]] :
        name \in StopNames, details \in StopDetails}

Payloads == StartPayloads \cup StopPayloads

\* ------------------------------------------------------------------------
\* Operations
\* ------------------------------------------------------------------------

\* Line 84 and the state of the tracing library before the first call.
Constructed ==
    /\ spans = << >>
    /\ created = << >>
    /\ current = 0
    /\ op = "__init__"
    /\ ret = << >>
    /\ err = NoError
    /\ pending = 0
    /\ wellNested = TRUE
    /\ started = 0
    /\ stopped = 0

Init ==
    /\ Constructed
    /\ tags_call = NoCall

\* The span context of the span that is current in the ambient context.
ambient_context ==
    IF current = 0 THEN INVALID_SPAN_CONTEXT ELSE created[current].context

\* An exception leaves the method before it changed anything.
Raise(exception) ==
    /\ err' = exception
    /\ ret' = << >>
    /\ UNCHANGED <<driverVars, started, stopped>>

\* Mutant: the span is started and its activation pushed before the tags are
\* built (the tags set on the span afterwards), so that a KeyError leaves
\* notify with the span open.
notify_start_tags_afterwards(payload) ==
    IF ~strptime_ok(payload.timestamp)
    THEN Raise("ValueError")
    ELSE LET parent == parent_span(payload)
             tags == create_span_tags(payload)
             span == start_span(created, span_name(payload), parent, ambient_context,
                                tags.tags)
             index == Len(created) + 1
             activation == use_span(index, current)
         IN  /\ created' = Append(created, span)
             /\ current' = index
             /\ spans' = deque_append(spans, activation)
             /\ ret' = IF tags.exc = NoError THEN start_result(span, parent) ELSE << >>
             /\ err' = tags.exc
             /\ started' = IF tags.exc = NoError THEN started + 1 ELSE started
             /\ UNCHANGED stopped
\* Lines 91-157: notify, the start path.
notify_start(payload) ==
    IF ~strptime_ok(payload.timestamp)
    THEN Raise("ValueError")
    ELSE IF create_span_tags(payload).exc # NoError
    THEN Raise(create_span_tags(payload).exc)
    ELSE LET parent == parent_span(payload)
             span == start_span(created, span_name(payload), parent, ambient_context,
                                create_span_tags(payload).tags)
             index == Len(created) + 1
             activation == use_span(index, current)
         IN  /\ created' = Append(created, span)
             /\ current' = index
             /\ spans' = deque_append(spans, activation)
             /\ ret' = start_result(span, parent)
             /\ err' = NoError
             /\ started' = started + 1
             /\ UNCHANGED stopped

\* Mutant: a stop that finds the deque empty returns as if it had stopped a
\* span.
notify_stop_silent(payload) ==
    IF spans = << >>
    THEN /\ err' = NoError
         /\ ret' = << >>
         /\ stopped' = stopped + 1
         /\ UNCHANGED <<driverVars, started>>
    ELSE LET activation == deque_last(spans)
         IN  /\ spans' = deque_pop(spans)
             /\ current' = activation.token
             /\ created' = [created EXCEPT ![activation.span] = span_end(@)]
             /\ ret' = << >>
             /\ err' = NoError
             /\ stopped' = stopped + 1
             /\ UNCHANGED started

\* Mutant: the stop path asserts that the stop carries the operation name
\* the span on top of the stack was started with.
notify_stop_checking_name(payload) ==
    IF spans = << >>
    THEN Raise("IndexError")
    ELSE IF created[deque_last(spans).span].name \o DashStopLiteral # payload.name
    THEN Raise("AssertionError")
    ELSE LET activation == deque_last(spans)
         IN  /\ spans' = deque_pop(spans)
             /\ current' = activation.token
             /\ created' = [created EXCEPT ![activation.span] = span_end(@)]
             /\ ret' = << >>
             /\ err' = NoError
             /\ stopped' = stopped + 1
             /\ UNCHANGED started
\* Lines 158-173: notify, the stop path. activation.__exit__ restores the
\* context the activation replaced and ends its span.
notify_stop(payload) ==
    IF spans = << >>
    THEN Raise("IndexError")
    ELSE LET activation == deque_last(spans)
         IN  /\ spans' = deque_pop(spans)
             /\ current' = activation.token
             /\ created' = [created EXCEPT ![activation.span] = span_end(@)]
             /\ ret' = << >>
             /\ err' = NoError
             /\ stopped' = stopped + 1
             /\ UNCHANGED started

\* Line 91: the path notify takes.
\* Mutant: the start path is taken for names ending in "-start" only.
is_start_with_dash(payload) == endswith(payload.name, DashStartLiteral)
is_start(payload) == endswith(payload.name, StartLiteral)

\* notify(payload), with the caller's account of its own nesting.
notify(payload) ==
    /\ op' = "notify"
    /\ IF is_start(payload)
       THEN /\ Len(created) < MaxSpans
            /\ pending < MaxDepth
            /\ notify_start(payload)
            /\ pending' = pending + 1
            /\ UNCHANGED <<wellNested, tags_call>>
       ELSE /\ notify_stop(payload)
            /\ pending' = IF pending > 0 THEN pending - 1 ELSE 0
            /\ wellNested' = (wellNested /\ pending > 0)
            /\ UNCHANGED tags_call

\* The result the base driver builds from the notifications it stored; this
\* driver stores none.
parse_results == EmptyDict

\* Lines 175-177
get_report ==
    /\ op' = "get_report"
    /\ ret' = parse_results
    /\ err' = NoError
    /\ UNCHANGED <<driverVars, callerVars, tags_call>>

\* Mutant: the operation refuses instead of returning the empty list.
list_traces_refusing ==
    /\ op' = "list_traces"
    /\ ret' = << >>
    /\ err' = "NotImplementedError"
    /\ UNCHANGED <<driverVars, callerVars, tags_call>>
\* Lines 179-181
list_traces ==
    /\ op' = "list_traces"
    /\ ret' = << >>
    /\ err' = NoError
    /\ UNCHANGED <<driverVars, callerVars, tags_call>>

\* Lines 183-185
list_error_traces ==
    /\ op' = "list_error_traces"
    /\ ret' = << >>
    /\ err' = NoError
    /\ UNCHANGED <<driverVars, callerVars, tags_call>>

Next ==
    \/ \E payload \in Payloads : notify(payload)
    \/ get_report
    \/ list_traces
    \/ list_error_traces

Spec == Init /\ [][Next]_vars

TypeOK ==
    /\ Len(created) <= MaxSpans
    /\ Len(spans) <= Len(created)
    /\ pending \in 0..MaxDepth

\* ------------------------------------------------------------------------
\* create_span_tags on its own, over the shapes an info mapping can take
\* ------------------------------------------------------------------------

\* The values an entry of info can hold; the empty mapping is falsy.
DbValues ==
    { EmptyDict,
      [statement |-> "SELECT 1", params |-> [a |-> "1"]],
      [statement |-> "SELECT 1"],
      [params |-> [a |-> "1"]] }

RequestValues ==
    { EmptyDict,
      [path |-> "/x", query |-> "q=1", method |-> "GET", scheme |-> "http"],
      [path |-> "/x", query |-> "q=1", method |-> "GET"],
      [query |-> "q=1", method |-> "GET", scheme |-> "http"] }

FunctionValues ==
    { EmptyDict,
      [name |-> "foo"],
      [name |-> "foo", args |-> "(1, 2)"],
      [name |-> "foo", kwargs |-> "{k: 1}"],
      [name |-> "foo", args |-> "(1, 2)", kwargs |-> "{k: 1}"],
      [args |-> "(1, 2)"],
      [args |-> "(1, 2)", kwargs |-> "{k: 1}"] }

\* An entry that is absent (the empty set) or present with a value.
Optional(values) == {{}} \cup {{v} : v \in values}
Entry(key, optional) ==
    IF optional = {} THEN EmptyDict ELSE key :> (CHOOSE v \in optional : TRUE)

TagInfos ==
    { Entry("db", d) @@ Entry("request", r) @@ Entry("function", f) :
        d \in Optional(DbValues), r \in Optional(RequestValues),
        f \in Optional(FunctionValues) }

TagPayloads ==
    [name : {<<"d", "b">> \o DashStartLiteral}, timestamp : {GoodTimestamp},
     base_id : {RemoteTraceId}, parent_id : {None}, info : TagInfos]

InitTags ==
    /\ Constructed
    /\ tags_call \in {[done |-> FALSE, payload |-> payload, result |-> NoneObj] :
                        payload \in TagPayloads}

\* Lines 187-216, called on the payload.
call_create_span_tags ==
    /\ ~tags_call.done
    /\ tags_call' = [tags_call EXCEPT !.done = TRUE,
                                      !.result = create_span_tags(tags_call.payload)]
    /\ UNCHANGED <<driverVars, callerVars, op, ret, err>>

NextTags == call_create_span_tags

SpecTags == InitTags /\ [][NextTags]_vars

\* ------------------------------------------------------------------------
\* Properties
\* ------------------------------------------------------------------------

\* The span notify started in this step, and the activation it pushed.
NewSpan == created'[Len(created')]
NewActivation == spans'[Len(spans')]

\* This step is notify(payload) returning from its start path.
StartReturns(payload) ==
    /\ is_start(payload)
    /\ err' = NoError
    /\ notify(payload)

\* This step is notify(payload) on its stop path.
StopCalled(payload) ==
    /\ ~is_start(payload)
    /\ notify(payload)

\* C1: whenever the caller has sent a well-nested sequence of start and stop
\* notifications to a fresh instance and every start has had its stop, the
\* activation stack has depth zero and as many spans were closed as opened.
C1_WellNestedReturnsToZero ==
    (wellNested /\ pending = 0) =>
        /\ Len(spans) = 0
        /\ Cardinality(ClosedSpans) = Len(created)
        /\ OpenSpans = {}

\* A well-nested sequence that opened two spans has ended.
C1_Witness ==
    /\ op = "notify"
    /\ wellNested
    /\ pending = 0
    /\ Len(created) >= 2
    /\ stopped >= 2

\* C2: a start with parent_id = None that returns, returns the two-element
\* list [trace id, span id] of the span it just opened and pushed; a start
\* with another parent_id returns the one-element list [span id] of that
\* span; whatever the depth of the stack.
C2_StartReturnsIdentifiers ==
    [][\A payload \in Payloads :
         StartReturns(payload) =>
            /\ Len(created') = Len(created) + 1
            /\ NewActivation.span = Len(created')
            /\ IF payload.parent_id = None
               THEN ret' = <<NewSpan.context.trace_id, NewSpan.context.span_id>>
               ELSE ret' = <<NewSpan.context.span_id>>
            /\ NewSpan.context.trace_id # NewSpan.context.span_id]_vars

\* A start without parent has returned a pair while another span was open
\* below the one it opened.
C2_Witness ==
    /\ op = "notify"
    /\ err = NoError
    /\ Len(spans) >= 2
    /\ Len(ret) = 2
    /\ ret = <<created[Len(created)].context.trace_id,
               created[Len(created)].context.span_id>>

\* C3: a stop delivered while the activation stack is empty raises an error
\* to the caller of notify (IndexError, the unbalanced stop), closes no span
\* and leaves the stack empty and the rest of the driver as it was.
C3_UnbalancedStopIsReported ==
    [][\A payload \in Payloads :
         (StopCalled(payload) /\ spans = << >>) =>
            /\ err' = "IndexError"
            /\ ret' = << >>
            /\ spans' = << >>
            /\ created' = created
            /\ current' = current
            /\ stopped' = stopped]_vars

\* An unbalanced stop was reported to an instance that had opened and closed
\* a span before.
C3_Witness ==
    /\ op = "notify"
    /\ err = "IndexError"
    /\ spans = << >>
    /\ Len(created) >= 1
    /\ ~wellNested

\* C4: a stop delivered while the stack is not empty removes the activation
\* pushed last among those on the stack and ends the span of that activation
\* and no other; the activations below keep their places and their spans
\* stay as they were.
C4_StopPopsNewest ==
    [][\A payload \in Payloads :
         (StopCalled(payload) /\ spans # << >>) =>
            LET top == spans[Len(spans)]
            IN  /\ \A i \in 1..Len(spans) : spans[i].span <= top.span
                /\ err' = NoError
                /\ spans' = SubSeq(spans, 1, Len(spans) - 1)
                /\ created[top.span].end_calls = 0
                /\ created'[top.span].end_calls = 1
                /\ Len(created') = Len(created)
                /\ \A i \in 1..Len(created) :
                      i # top.span => created'[i] = created[i]]_vars

\* A stop has closed the newest span and an older one is still open on the
\* stack.
C4_Witness ==
    /\ op = "notify"
    /\ err = NoError
    /\ ret = << >>
    /\ Len(spans) >= 1
    /\ ClosedSpans # {}
    /\ \A i \in ClosedSpans : \A j \in StackSpans : j < i

\* This step is one of the read-only operations.
ReadOnlyCalled == get_report \/ list_traces \/ list_error_traces

\* C5: the activation stack is empty after construction; its depth is always
\* the number of starts handled without error minus the number of stops
\* handled without error; a start that returns grows it by one, a stop that
\* returns shrinks it by one, and no other step changes it.
C5_DepthIsStartsMinusStops ==
    /\ spans = << >>
    /\ [](Len(spans) = started - stopped)
    /\ [][/\ \A payload \in Payloads :
               notify(payload) =>
                  IF err' # NoError
                  THEN spans' = spans /\ started' = started /\ stopped' = stopped
                  ELSE IF is_start(payload)
                  THEN /\ Len(spans') = Len(spans) + 1
                       /\ started' = started + 1
                       /\ stopped' = stopped
                  ELSE /\ Len(spans') = Len(spans) - 1
                       /\ stopped' = stopped + 1
                       /\ started' = started
          /\ ReadOnlyCalled => spans' = spans]_vars

\* Two starts and one stop have been handled and one activation is left.
C5_Witness ==
    /\ started >= 2
    /\ stopped >= 1
    /\ Len(spans) = started - stopped
    /\ Len(spans) >= 1

\* C6: an activation is on the stack exactly while its span is open, and no
\* activation is on it twice; a span is ended at most once, and only by the
\* stop that pops its activation: no start, no failed call and no read-only
\* operation ends a span, and a span that was ended stays ended.
C6_OpenIffOnStack ==
    /\ [](/\ StackSpans = OpenSpans
          /\ Cardinality(StackSpans) = Len(spans)
          /\ \A i \in 1..Len(created) : created[i].end_calls <= 1)
    /\ [][/\ ClosedSpans \subseteq ClosedSpans'
          /\ OpenSpans' \subseteq OpenSpans \cup {Len(created')}
          /\ ClosedSpans' # ClosedSpans =>
                /\ spans # << >>
                /\ ClosedSpans' = ClosedSpans \cup {spans[Len(spans)].span}
                /\ spans' = SubSeq(spans, 1, Len(spans) - 1)
                /\ stopped' = stopped + 1
                /\ \E payload \in StopPayloads : StopCalled(payload)
                /\ ~\E payload \in StartPayloads : notify(payload)
                /\ ~ReadOnlyCalled
          /\ ReadOnlyCalled => (created' = created /\ spans' = spans)]_vars

\* One span has been closed by its stop while another is open on the stack.
C6_Witness ==
    /\ ClosedSpans # {}
    /\ OpenSpans # {}
    /\ StackSpans = OpenSpans

\* C7: the parent of a span that a start opens is read from the payload
\* alone. With a parent_id the parent is the remote, sampled span context
\* (base_id, parent_id) and the span is in trace base_id; without one the
\* span has no parent and its trace id is that of no earlier span, also when
\* activations are open on the stack.
C7_ParentFromPayloadOnly ==
    [][\A payload \in Payloads :
         StartReturns(payload) =>
            IF payload.parent_id # None
            THEN /\ NewSpan.parent.trace_id = payload.base_id
                 /\ NewSpan.parent.span_id = payload.parent_id
                 /\ NewSpan.parent.is_remote
                 /\ NewSpan.parent.sampled
                 /\ NewSpan.context.trace_id = payload.base_id
            ELSE /\ NewSpan.parent = NoneObj
                 /\ \A i \in 1..Len(created) :
                       created[i].context.trace_id # NewSpan.context.trace_id]_vars

\* A span without parent was opened while another span was open and current,
\* and it started a trace of its own.
C7_Witness ==
    /\ Len(spans) >= 2
    /\ LET top == created[spans[Len(spans)].span]
           below == created[spans[Len(spans) - 1].span]
       IN  /\ top.parent = NoneObj
           /\ top.context.trace_id # below.context.trace_id

\* C8: a start whose timestamp cannot be parsed raises an error (ValueError)
\* to the caller and has no effect: no span is started, nothing is pushed,
\* and the stack, the spans and the current span are as before the call.
C8_MalformedTimestampAborts ==
    [][\A payload \in Payloads :
         (is_start(payload) /\ notify(payload) /\ payload.timestamp = BadTimestamp) =>
            /\ err' = "ValueError"
            /\ ret' = << >>
            /\ spans' = spans
            /\ created' = created
            /\ current' = current
            /\ started' = started]_vars

\* A start with a malformed timestamp was refused while a span was open.
C8_Witness ==
    /\ op = "notify"
    /\ err = "ValueError"
    /\ Len(spans) >= 1
    /\ OpenSpans # {}

\* C9: the span a start opens is named by the notification name without its
\* "-start" suffix: the name followed by "-start" is the notification name.
C9_NameWithoutSuffix ==
    [][\A payload \in Payloads :
         StartReturns(payload) =>
            NewSpan.name \o DashStartLiteral = payload.name]_vars

\* The keys of the three branches of create_span_tags.
DbKeys == {"db.statement", "db.params"}
HttpKeys == {"http.path", "http.query", "http.method", "http.scheme"}
FunctionKeys == {"name", "args", "kwargs"}

\* The entry of info under key is present and not empty.
NonEmptyEntry(info, key) == key \in DOMAIN info /\ info[key] # EmptyDict

\* The call of create_span_tags has returned a mapping.
TagsReturned == tags_call.done /\ tags_call.result.exc = NoError

\* C10 as stated: whenever info contains a db entry, the mapping that
\* create_span_tags returns holds no key but db.statement and db.params.
C10_DbEntryGivesDbKeysOnly ==
    (TagsReturned /\ "db" \in DOMAIN tags_call.payload.info) =>
        DOMAIN tags_call.result.tags \subseteq DbKeys

\* C10, amended: create_span_tags takes the first of db, request and function
\* whose entry is present and not empty. When it returns, the mapping holds
\* exactly db.statement and db.params for a non-empty db entry (whatever the
\* request and function entries), else exactly the four http keys with the
\* values of the request entry for a non-empty request entry, else only
\* function keys for a non-empty function entry; when each of the three
\* entries is absent or empty it returns the empty mapping without error.
\* Keys of two branches are never together.
C10_BranchByPriority ==
    tags_call.done =>
        LET info == tags_call.payload.info
            result == tags_call.result
            tags == result.tags
            keys == DOMAIN tags
        IN  /\ (result.exc = NoError /\ NonEmptyEntry(info, "db")) =>
                 /\ keys = DbKeys
                 /\ tags["db.statement"] = info["db"]["statement"]
            /\ (result.exc = NoError /\ ~NonEmptyEntry(info, "db")
                    /\ NonEmptyEntry(info, "request")) =>
                 /\ keys = HttpKeys
                 /\ tags["http.path"] = info["request"]["path"]
                 /\ tags["http.query"] = info["request"]["query"]
                 /\ tags["http.method"] = info["request"]["method"]
                 /\ tags["http.scheme"] = info["request"]["scheme"]
            /\ (result.exc = NoError /\ ~NonEmptyEntry(info, "db")
                    /\ ~NonEmptyEntry(info, "request")
                    /\ NonEmptyEntry(info, "function")) =>
                 /\ keys \subseteq FunctionKeys
                 /\ keys # {}
            /\ (~NonEmptyEntry(info, "db") /\ ~NonEmptyEntry(info, "request")
                    /\ ~NonEmptyEntry(info, "function")) =>
                 /\ result.exc = NoError
                 /\ tags = EmptyDict
            /\ \/ keys \subseteq DbKeys
               \/ keys \subseteq HttpKeys
               \/ keys \subseteq FunctionKeys

\* create_span_tags has returned the db keys for an info mapping that holds
\* non-empty db, request and function entries.
C10_Witness ==
    /\ TagsReturned
    /\ NonEmptyEntry(tags_call.payload.info, "db")
    /\ NonEmptyEntry(tags_call.payload.info, "request")
    /\ NonEmptyEntry(tags_call.payload.info, "function")
    /\ DOMAIN tags_call.result.tags = DbKeys

\* The call of create_span_tags took the function branch: neither the db nor
\* the request entry of info is present and not empty, the function entry is.
FunctionBranchTaken ==
    /\ tags_call.done
    /\ ~NonEmptyEntry(tags_call.payload.info, "db")
    /\ ~NonEmptyEntry(tags_call.payload.info, "request")
    /\ NonEmptyEntry(tags_call.payload.info, "function")

\* C11: in the function branch the mapping that create_span_tags returns
\* holds name, holds args exactly when args is a key of info.function and
\* kwargs exactly when kwargs is one, each with the value of the payload and
\* no other key; a missing args or kwargs is no error.
C11_FunctionTagsVerbatim ==
    FunctionBranchTaken =>
        LET fn == tags_call.payload.info["function"]
            result == tags_call.result
            tags == result.tags
        IN  /\ result.exc = NoError =>
                 /\ "name" \in DOMAIN tags
                 /\ tags["name"] = fn["name"]
                 /\ \A key \in {"args", "kwargs"} :
                       /\ key \in DOMAIN tags <=> key \in DOMAIN fn
                       /\ key \in DOMAIN tags => tags[key] = fn[key]
                 /\ DOMAIN tags \subseteq FunctionKeys
            /\ "name" \in DOMAIN fn => result.exc = NoError

\* The function branch has returned name and args for a function entry
\* without kwargs, and no kwargs key.
C11_Witness ==
    /\ FunctionBranchTaken
    /\ tags_call.result.exc = NoError
    /\ DOMAIN tags_call.payload.info["function"] = {"name", "args"}
    /\ DOMAIN tags_call.result.tags = {"name", "args"}

\* C12: get_report, list_traces and list_error_traces raise nothing, return
\* an empty result, and leave the activation stack, every span (open or
\* closed) and the current span as they were.
C12_ReadOnlyOperations ==
    [][ReadOnlyCalled =>
         /\ err' = NoError
         /\ ret' = << >>
         /\ spans' = spans
         /\ created' = created
         /\ current' = current
         /\ OpenSpans' = OpenSpans
         /\ ClosedSpans' = ClosedSpans]_vars

\* A read-only operation has returned while one span was open on the stack
\* and another was closed.
C12_Witness ==
    /\ op \in {"get_report", "list_traces", "list_error_traces"}
    /\ err = NoError
    /\ ret = << >>
    /\ spans # << >>
    /\ ClosedSpans # {}

\* ------------------------------------------------------------------------
\* One driver instance called from two threads
\* ------------------------------------------------------------------------

\* In this specification the tracing context is kept per thread (it lives in
\* a context variable): current[t] is the span current in thread t. The
\* caller's account is kept per thread as well: pending[t] is the sequence of
\* the starts of thread t not yet matched by a stop of thread t, each entry
\* the index of the span the start opened, or 0 when the start raised.
\* self.spans and the tracer are shared. A call of notify is one step: the
\* driver takes no lock, so that steps of the two threads alternate freely.
Threads == {"thread-1", "thread-2"}

InitThreads ==
    /\ spans = << >>
    /\ created = << >>
    /\ current = [t \in Threads |-> 0]
    /\ op = "__init__"
    /\ ret = << >>
    /\ err = NoError
    /\ pending = [t \in Threads |-> << >>]
    /\ wellNested = TRUE
    /\ started = 0
    /\ stopped = 0
    /\ tags_call = NoCall

\* The span context of the span that is current in thread t.
thread_context(t) ==
    IF current[t] = 0 THEN INVALID_SPAN_CONTEXT ELSE created[current[t]].context

\* An exception leaves notify in a thread before it changed anything.
thread_raise(exception) ==
    /\ err' = exception
    /\ ret' = << >>
    /\ UNCHANGED <<spans, created, current, started, stopped>>

\* Lines 91-157 in thread t.
thread_start(t, payload) ==
    IF ~strptime_ok(payload.timestamp)
    THEN thread_raise("ValueError") /\ pending' = [pending EXCEPT ![t] = Append(@, 0)]
    ELSE IF create_span_tags(payload).exc # NoError
    THEN /\ thread_raise(create_span_tags(payload).exc)
         /\ pending' = [pending EXCEPT ![t] = Append(@, 0)]
    ELSE LET parent == parent_span(payload)
             span == start_span(created, span_name(payload), parent,
                                thread_context(t), create_span_tags(payload).tags)
             index == Len(created) + 1
             activation == [span |-> index, token |-> current[t], thread |-> t]
         IN  /\ created' = Append(created, span)
             /\ current' = [current EXCEPT ![t] = index]
             /\ spans' = deque_append(spans, activation)
             /\ ret' = start_result(span, parent)
             /\ err' = NoError
             /\ started' = started + 1
             /\ pending' = [pending EXCEPT ![t] = Append(@, index)]
             /\ UNCHANGED stopped

\* Lines 158-173 in thread t. Leaving an activation that another thread
\* entered cannot restore the context of this thread (the library logs the
\* failed detach); the span of the activation is ended all the same.
thread_stop(t, payload) ==
    /\ pending' = [pending EXCEPT ![t] = SubSeq(@, 1, Len(@) - 1)]
    /\ IF spans = << >>
       THEN thread_raise("IndexError")
       ELSE LET activation == deque_last(spans)
            IN  /\ spans' = deque_pop(spans)
                /\ current' = IF activation.thread = t
                              THEN [current EXCEPT ![t] = activation.token]
                              ELSE current
                /\ created' = [created EXCEPT ![activation.span] = span_end(@)]
                /\ ret' = << >>
                /\ err' = NoError
                /\ stopped' = stopped + 1
                /\ UNCHANGED started

\* notify(payload) called in thread t, whose own notifications are well
\* nested.
thread_notify(t, payload) ==
    /\ op' = "notify"
    /\ UNCHANGED <<wellNested, tags_call>>
    /\ IF is_start(payload)
       THEN /\ Len(created) < MaxSpans
            /\ Len(pending[t]) < MaxDepth
            /\ thread_start(t, payload)
       ELSE /\ pending[t] # << >>
            /\ thread_stop(t, payload)

NextThreads == \E t \in Threads : \E payload \in Payloads : thread_notify(t, payload)

SpecThreads == InitThreads /\ [][NextThreads]_vars

\* The span that the start matching the next stop of thread t opened.
MatchingSpan(t) == pending[t][Len(pending[t])]

\* C13: with one instance shared by two threads, each sending a well-nested
\* sequence of its own, a stop of a thread whose matching start opened a
\* span ends that span and no other.
C13_StopClosesOwnSpan ==
    [][\A t \in Threads : \A payload \in StopPayloads :
          (thread_notify(t, payload) /\ MatchingSpan(t) # 0) =>
             /\ err' = NoError
             /\ ClosedSpans' = ClosedSpans \cup {MatchingSpan(t)}]_vars

\* ------------------------------------------------------------------------
\* A caller that follows the propagation protocol
\* ------------------------------------------------------------------------

\* The caller is the single thread MainThread of the specification above, so
\* that pending[MainThread] is the sequence of its open calls. Its first
\* start names no parent; a later start is nested in a call whose start
\* returned, and carries the trace id the first start returned and the span
\* id the start of the innermost open call returned.
MainThread == "thread-1"

OpenCalls == pending[MainThread]

ProtocolIdentifiers ==
    IF created = << >>
    THEN {<<RemoteTraceId, None>>}
    ELSE IF OpenCalls # << >> /\ OpenCalls[Len(OpenCalls)] # 0
    THEN {<<created[1].context.trace_id,
            created[OpenCalls[Len(OpenCalls)]].context.span_id>>}
    ELSE {}

\* info mappings of the caller: those of the life cycle, one without any of
\* the three entries and one of a function call.
ProtocolInfos == Infos \cup {EmptyDict, [function |-> [name |-> "foo"]]}

ProtocolPayloads ==
    {[name |-> name, timestamp |-> timestamp, base_id |-> ids[1],
      parent_id |-> ids[2], info |-> info] :
        name \in StartNames, timestamp \in Timestamps, ids \in ProtocolIdentifiers,
        info \in ProtocolInfos}
    \cup StopPayloads

NextProtocol == \E payload \in ProtocolPayloads : thread_notify(MainThread, payload)

SpecProtocol == InitThreads /\ [][NextProtocol]_vars

\* This step is a start of the protocol that returns.
ProtocolStartReturns(payload) ==
    /\ is_start(payload)
    /\ err' = NoError
    /\ thread_notify(MainThread, payload)

\* The open calls of the caller are the activations on the stack, one for
\* one: no start of an open call raised, and no stop was spent on a call
\* whose start had raised.
EveryCallHasItsActivation ==
    /\ Len(spans) = Len(OpenCalls)
    /\ \A i \in 1..Len(spans) : spans[i].span = OpenCalls[i]

TopSpan == IF spans = << >> THEN 0 ELSE spans[Len(spans)].span

\* C15: on one thread, between notifications the span that is current in
\* the tracing context is the span of the activation on top of the stack,
\* and the one that was current before the first start when the stack is
\* empty; a start that returns makes its span current, and a stop that
\* returns makes current again the span that was current when the start of
\* the popped activation was called.
C15_CurrentIsTopOfStack ==
    /\ [](current = TopSpan)
    /\ [][\A payload \in Payloads :
            /\ StartReturns(payload) =>
                  /\ current' = Len(created')
                  /\ NewActivation.token = current
            /\ (spans # << >> /\ StopCalled(payload)) =>
                  current' = spans[Len(spans)].token]_vars

\* After a start, a nested start and the stop of the nested one, the span of
\* the outer start is current again.
C15_Witness ==
    /\ op = "notify"
    /\ ret = << >>
    /\ err = NoError
    /\ Len(spans) = 1
    /\ ClosedSpans # {}
    /\ current = spans[1].span
    /\ \A i \in ClosedSpans : i > current

\* C16: a stop ends the span on top of the stack without reading its own
\* payload: the step it takes is the step of every other stop payload
\* (whatever the name prefix, base_id, parent_id and info), it raises no
\* error, and it ends the top span also when that span was started under
\* another operation name.
C16_StopIgnoresItsPayload ==
    [][(spans # << >> /\ \E payload \in StopPayloads : StopCalled(payload)) =>
          /\ err' = NoError
          /\ ClosedSpans' = ClosedSpans \cup {spans[Len(spans)].span}
          /\ \A other \in StopPayloads : notify(other)
          /\ \E other \in StopPayloads :
                /\ other.name # created[spans[Len(spans)].span].name \o DashStopLiteral
                /\ notify(other)]_vars

\* A stop has ended a span named "db"; the same step is the step of the stop
\* named "request-stop".
C16_Witness ==
    /\ op = "notify"
    /\ ret = << >>
    /\ err = NoError
    /\ \E i \in ClosedSpans : created[i].name = <<"d", "b">>
    /\ Cardinality({payload.name : payload \in StopPayloads}) >= 2
    /\ Cardinality({payload.base_id : payload \in StopPayloads}) >= 2
    /\ Cardinality({payload.parent_id : payload \in StopPayloads}) >= 2
    /\ Cardinality({payload.info : payload \in StopPayloads}) >= 2

\* ------------------------------------------------------------------------
\* Starts whose info lacks a field of the branch it selects
\* ------------------------------------------------------------------------

\* info mappings whose first non-empty entry lacks a key its branch reads.
MalformedInfos ==
    { [db |-> [statement |-> "SELECT 1"]],
      [db |-> [params |-> [a |-> "1"]]],
      [request |-> [query |-> "q=1", method |-> "GET", scheme |-> "http"]],
      [request |-> [path |-> "/x", method |-> "GET", scheme |-> "http"]],
      [request |-> [path |-> "/x", query |-> "q=1", scheme |-> "http"]],
      [request |-> [path |-> "/x", query |-> "q=1", method |-> "GET"]],
      [function |-> [args |-> "(1, 2)", kwargs |-> "{k: 1}"]],
      [db |-> [statement |-> "SELECT 1"], function |-> [name |-> "foo"]] }

\* info mappings with every key of their branch.
CompleteInfos ==
    { DbInfo,
      [request |-> [path |-> "/x", query |-> "q=1", method |-> "GET", scheme |-> "http"]],
      [function |-> [name |-> "foo"]] }

FieldPayloads ==
    {[name |-> <<"d", "b">> \o DashStartLiteral, timestamp |-> GoodTimestamp,
      base_id |-> ids[1], parent_id |-> ids[2], info |-> info] :
        ids \in Identifiers, info \in MalformedInfos \cup CompleteInfos}
    \cup StopPayloads

NextFields == \E payload \in FieldPayloads : notify(payload)

SpecFields == Init /\ [][NextFields]_vars

\* C17: a start whose info lacks a field of the branch it selects raises an
\* error (KeyError) to the caller and is aborted:
\* no span is started, nothing is pushed and the stack, the spans and the
\* current span are as before, while the caller counts one more open call,
\* so that the stack is one shorter than the caller expects when the
\* matching stop comes.
C17_MissingFieldAborts ==
    [][\A payload \in FieldPayloads :
          (is_start(payload) /\ payload.info \in MalformedInfos /\ notify(payload)) =>
             /\ err' = "KeyError"
             /\ ret' = << >>
             /\ spans' = spans
             /\ created' = created
             /\ current' = current
             /\ started' = started
             /\ pending' - Len(spans') = (pending - Len(spans)) + 1]_vars

\* A start with a missing field was refused with KeyError while a span was
\* open, and the caller counts more open calls than the stack holds.
C17_Witness ==
    /\ op = "notify"
    /\ err = "KeyError"
    /\ Len(spans) >= 1
    /\ pending > Len(spans)

\* ------------------------------------------------------------------------
\* The path a notification takes, by its name
\* ------------------------------------------------------------------------

\* Names whose last five characters are s, t, a, r, t, written out.
NamesEndingInStart ==
    { <<"d", "b", "-", "s", "t", "a", "r", "t">>,
      <<"r", "e", "s", "t", "a", "r", "t">>,
      <<"s", "t", "a", "r", "t">> }

\* Every other name: with and without "-stop", "start" elsewhere than at
\* the end, a proper prefix of "start", a different case, the empty name.
OtherNames ==
    { <<"d", "b", "-", "s", "t", "o", "p">>,
      <<"d", "b", "-", "f", "i", "n", "i", "s", "h">>,
      <<"s", "t", "a", "r", "t", "-", "d", "b">>,
      <<"s", "t", "a", "r">>,
      <<"d", "b", "-", "S", "T", "A", "R", "T">>,
      << >> }

NamePayloads ==
    {[name |-> name, timestamp |-> timestamp, base_id |-> ids[1],
      parent_id |-> ids[2], info |-> DbInfo] :
        name \in NamesEndingInStart \cup OtherNames, timestamp \in Timestamps,
        ids \in {<<RemoteTraceId, None>>, <<RemoteTraceId, RemoteSpanId>>}}

NextNames == \E payload \in NamePayloads : notify(payload)

SpecNames == Init /\ [][NextNames]_vars

\* The step took the start path: it started a span and pushed its
\* activation, closing nothing, or it raised the error of a timestamp that
\* does not parse.
TookStartPath ==
    \/ /\ err' = NoError
       /\ Len(created') = Len(created) + 1
       /\ spans' = Append(spans, NewActivation)
       /\ NewActivation.span = Len(created')
       /\ ClosedSpans' = ClosedSpans
    \/ /\ err' = "ValueError"
       /\ UNCHANGED driverVars

\* The step took the stop path: it popped the newest activation and ended
\* its span, starting nothing, or it raised the error of the empty deque.
TookStopPath ==
    \/ /\ err' = NoError
       /\ spans # << >>
       /\ spans' = SubSeq(spans, 1, Len(spans) - 1)
       /\ Len(created') = Len(created)
       /\ ClosedSpans' = ClosedSpans \cup {spans[Len(spans)].span}
    \/ /\ err' = "IndexError"
       /\ spans = << >>
       /\ UNCHANGED driverVars

\* C18: every notification takes exactly one of the two paths, decided by
\* its name alone: the start path when the name ends in the characters
\* `start`, the stop path for every other name, whether or not it ends in
\* `-stop`; none is ignored (it changes the driver or raises) and none takes
\* both paths.
C18_PathDecidedByName ==
    [][\A payload \in NamePayloads :
          notify(payload) =>
             /\ (payload.name \in NamesEndingInStart) => (TookStartPath /\ ~TookStopPath)
             /\ (payload.name \in OtherNames) => (TookStopPath /\ ~TookStartPath)
             /\ ~(err' = NoError /\ UNCHANGED driverVars)]_vars

\* A notification named "restart", which ends in `start` without the dash,
\* opened a span, and a later notification took the stop path and closed it.
C18_Witness ==
    /\ op = "notify"
    /\ err = NoError
    /\ ret = << >>
    /\ \E i \in ClosedSpans : created[i].name = rstrip(<<"r", "e", "s", "t", "a", "r", "t">>, CharsOf(DashStartLiteral))

\* ------------------------------------------------------------------------
\* Two driver instances in one thread
\* ------------------------------------------------------------------------

\* In this specification two instances have been constructed. spans[k] is
\* the deque with key k, pending[i] the number of starts sent to instance i
\* and not yet matched by a stop sent to it. The tracing context of the
\* thread (current) and the spans the tracers have started (created) are
\* those of the process. An activation remembers the instance whose notify
\* pushed it.
Instances == {"A", "B"}

\* Mutant: the deque is an attribute of the class, shared by the instances.
deque_of_class(instance) == "A"

\* Line 84, self.spans = collections.deque(): each constructed instance has
\* a deque of its own.
deque_of(instance) == instance

InitInstances ==
    /\ spans = [i \in Instances |-> << >>]
    /\ created = << >>
    /\ current = 0
    /\ op = "__init__"
    /\ ret = << >>
    /\ err = NoError
    /\ pending = [i \in Instances |-> 0]
    /\ wellNested = TRUE
    /\ started = 0
    /\ stopped = 0
    /\ tags_call = NoCall

\* An exception leaves notify of an instance before it changed anything.
instance_raise(exception) ==
    /\ err' = exception
    /\ ret' = << >>
    /\ UNCHANGED <<spans, created, current, started, stopped>>

\* Lines 91-157 on an instance.
instance_start(instance, payload) ==
    IF ~strptime_ok(payload.timestamp)
    THEN instance_raise("ValueError")
    ELSE IF create_span_tags(payload).exc # NoError
    THEN instance_raise(create_span_tags(payload).exc)
    ELSE LET parent == parent_span(payload)
             span == start_span(created, span_name(payload), parent,
                                ambient_context, create_span_tags(payload).tags)
             index == Len(created) + 1
             activation == [span |-> index, token |-> current, instance |-> instance]
         IN  /\ created' = Append(created, span)
             /\ current' = index
             /\ spans' = [spans EXCEPT ![deque_of(instance)] = deque_append(@, activation)]
             /\ ret' = start_result(span, parent)
             /\ err' = NoError
             /\ started' = started + 1
             /\ UNCHANGED stopped

\* Lines 158-173 on an instance.
instance_stop(instance, payload) ==
    IF spans[deque_of(instance)] = << >>
    THEN instance_raise("IndexError")
    ELSE LET activation == deque_last(spans[deque_of(instance)])
         IN  /\ spans' = [spans EXCEPT ![deque_of(instance)] = deque_pop(@)]
             /\ current' = activation.token
             /\ created' = [created EXCEPT ![activation.span] = span_end(@)]
             /\ ret' = << >>
             /\ err' = NoError
             /\ stopped' = stopped + 1
             /\ UNCHANGED started

\* instance.notify(payload)
instance_notify(instance, payload) ==
    /\ op' = "notify"
    /\ IF is_start(payload)
       THEN /\ Len(created) < MaxSpans
            /\ pending[instance] < MaxDepth
            /\ instance_start(instance, payload)
            /\ pending' = [pending EXCEPT ![instance] = @ + 1]
            /\ UNCHANGED <<wellNested, tags_call>>
       ELSE /\ instance_stop(instance, payload)
            /\ pending' = [pending EXCEPT ![instance] = IF @ > 0 THEN @ - 1 ELSE 0]
            /\ wellNested' = (wellNested /\ pending[instance] > 0)
            /\ UNCHANGED tags_call

InstancePayloads ==
    {[name |-> <<"d", "b">> \o DashStartLiteral, timestamp |-> GoodTimestamp,
      base_id |-> ids[1], parent_id |-> ids[2], info |-> info] :
        ids \in Identifiers, info \in Infos}
    \cup {[name |-> <<"d", "b">> \o DashStartLiteral, timestamp |-> BadTimestamp,
           base_id |-> RemoteTraceId, parent_id |-> None, info |-> DbInfo]}
    \cup StopPayloads

NextInstances ==
    \E instance \in Instances, payload \in InstancePayloads :
        instance_notify(instance, payload)

SpecInstances == InitInstances /\ [][NextInstances]_vars

\* The spans this step closed.
NewlyClosed == ClosedSpans' \ ClosedSpans

\* C19: the two instances have independent stacks. Whatever the
\* interleaving of the notifications sent to them, a notify on one instance
\* leaves the stack of the other as it was, and a stop on it pops and closes
\* only an activation that a start on the same instance pushed.
C19_IndependentStacks ==
    [][\A instance \in Instances, payload \in InstancePayloads :
          instance_notify(instance, payload) =>
             /\ \A other \in Instances \ {instance} : spans'[other] = spans[other]
             /\ \A closed \in NewlyClosed :
                   /\ spans[instance] # << >>
                   /\ spans[instance][Len(spans[instance])].span = closed
                   /\ spans[instance][Len(spans[instance])].instance = instance
                   /\ \A other \in Instances \ {instance} :
                         \A n \in 1..Len(spans[other]) : spans[other][n].span # closed]_vars

\* A start on A, then a start on B, then a stop on A: A's span is closed
\* while B's activation is still on B's stack.
C19_Witness ==
    /\ op = "notify"
    /\ err = NoError
    /\ ret = << >>
    /\ spans["A"] = << >>
    /\ Len(spans["B"]) = 1
    /\ spans["B"][1].instance = "B"
    /\ spans["B"][1].span = 2
    /\ ClosedSpans = {1}

====
